---- MODULE Spec2Model ----
(***************************************************************************)
(* A model of the Velo interpreter: the cosmos (grid of runes) built from  *)
(* the program text, the vessel (position, direction, velocity, data       *)
(* lattice), the rune effects and the execution loop of sail().            *)
(*                                                                         *)
(* Coordinates and indices are 0-based as in the source; TLA+ sequences    *)
(* are 1-based, so cell p of the data lattice is data_lattice[p + 1] and   *)
(* the rune at (x, y) is runes[y + 1][x + 1].                              *)
(*                                                                         *)
(* A usize subtraction below zero (velocity -= 1 at 0, width - 1 at 0)     *)
(* panics in a build with overflow checks and wraps around in one without. *)
(* Both outcomes are folded into the absorbing control state "Underflow":  *)
(* the model says that the subtraction was executed and follows neither    *)
(* outcome further.                                                        *)
(***************************************************************************)
EXTENDS Integers, Sequences, FiniteSets, TLC

VARIABLES
    cosmos,     \* Cosmos { runes, width, height }
    vessel,     \* Vessel { x, y, direction, velocity, data_lattice }
    pc,         \* where the run is: Entry, Running, a Termination, Underflow, Api
    signal,     \* the coordinates carried by Termination::NoSignal
    rune,       \* the rune impacted by the last step ("NoRune" before any)
    steps,      \* number of runes impacted so far (saturates at MaxSteps)
    reads,      \* number of bytes requested from stdin (saturates at MaxSteps)
    prints,     \* number of characters printed to stdout (saturates at MaxSteps)
    last_out,   \* scalar value of the last character printed (-1 if none)
    last_read,  \* result of the last read from stdin, <<>> if none
    config,     \* Config { debug, trace, ignore_void }
    diag,       \* diagnostic lines printed by the last iteration that impacted
    twin        \* a second run of sail on the same cosmos and the same stdin,
                \* under a configuration of its own (when twin.on)

vars ==
    <<cosmos, vessel, pc, signal, rune, steps, reads, prints, last_out,
      last_read, config, diag, twin>>

----------------------------------------------------------------------------
(* Bounds of the model *)

\* longest line of the one-line programs over the full alphabet
MaxLineLen == 3
\* most lines, and longest line, of the programs over the thrust characters
MaxRows == 2
MaxCols == 2
\* a step that would take the velocity above MaxVel is not taken
MaxVel == 33
\* an EntropyIncrease that would take a cell above MaxCell is not taken
MaxCell == 3
\* the counters steps, reads and prints stop counting at MaxSteps
MaxSteps == 5
\* number of impact_rune calls in the specification of the vessel's API
MaxImpacts == 4

----------------------------------------------------------------------------
(* Helpers *)

Min(a, b) == IF a <= b THEN a ELSE b

Max(S) == CHOOSE m \in S : \A n \in S : n <= m

Saturate(n) == Min(n + 1, MaxSteps)

----------------------------------------------------------------------------
(* models.rs: Rune, Direction, Rotation *)

ThrustRunes == {"ThrustUp", "ThrustDown", "ThrustLeft", "ThrustRight"}

Rune == ThrustRunes \cup
    {"Parking", "EntropyIncrease", "EntropyDecrease", "SteerLeft", "SteerRight",
     "Input", "Output", "Debug", "Void"}

Direction == {"Up", "Down", "Left", "Right", "None"}

Rotation == {"Straight", "Right", "UTurn", "Left"}

\* i32 remainder: the result has the sign of the dividend
Rem(a, b) == IF a >= 0 THEN a % b ELSE -((-a) % b)

Direction_to_i32(d) ==
    CASE d = "Up" -> 0
      [] d = "Right" -> 1
      [] d = "Down" -> 2
      [] d = "Left" -> 3
      [] d = "None" -> -1

\* from_i32 without its arm for 3
Direction_from_i32_no_left(n) ==
    CASE n = 0 -> "Up"
      [] n = 1 -> "Right"
      [] n = 2 -> "Down"
      [] OTHER -> "None"

Direction_from_i32(n) ==
    CASE n = 0 -> "Up"
      [] n = 1 -> "Right"
      [] n = 2 -> "Down"
      [] n = 3 -> "Left"
      [] OTHER -> "None"

\* a left turn counted as -1 instead of +3
Rotation_to_i32_signed(r) ==
    CASE r = "Straight" -> 0
      [] r = "Right" -> 1
      [] r = "UTurn" -> 2
      [] r = "Left" -> -1

Rotation_to_i32(r) ==
    CASE r = "Straight" -> 0
      [] r = "Right" -> 1
      [] r = "UTurn" -> 2
      [] r = "Left" -> 3

consistent_with(d, other) == d = other

\* opposite_to without its pair (Left, Right)
opposite_to_partial(d, other) ==
    \/ d = "Up" /\ other = "Down"
    \/ d = "Down" /\ other = "Up"
    \/ d = "Right" /\ other = "Left"

opposite_to(d, other) ==
    \/ d = "Up" /\ other = "Down"
    \/ d = "Down" /\ other = "Up"
    \/ d = "Right" /\ other = "Left"
    \/ d = "Left" /\ other = "Right"

rotate(d, rotation) ==
    Direction_from_i32(Rem(Direction_to_i32(d) + Rotation_to_i32(rotation), 4))

----------------------------------------------------------------------------
(* models.rs: Cosmos *)

Cosmos_new(runes, width, height) ==
    [runes |-> runes, width |-> width, height |-> height]

Cosmos_get(c, x, y) ==
    IF y >= c.height \/ x >= Len(c.runes[y + 1])
    THEN "Void"
    ELSE c.runes[y + 1][x + 1]

----------------------------------------------------------------------------
(* main.rs: from the lines of the program text to the cosmos *)

char_to_rune(c) ==
    CASE c = "^" -> "ThrustUp"
      [] c = "v" -> "ThrustDown"
      [] c = "<" -> "ThrustLeft"
      [] c = ">" -> "ThrustRight"
      [] c = "P" -> "Parking"
      [] c = "+" -> "EntropyIncrease"
      [] c = "-" -> "EntropyDecrease"
      [] c = "[" -> "SteerLeft"
      [] c = "]" -> "SteerRight"
      [] c = "," -> "Input"
      [] c = "." -> "Output"
      [] c = "D" -> "Debug"
      [] OTHER -> "Void"

\* line.split_once('#'): the part before the first '#', the whole line if none
before_hash(line) ==
    LET hashes == {i \in 1..Len(line) : line[i] = "#"}
    IN  IF hashes = {}
        THEN line
        ELSE SubSeq(line, 1, (CHOOSE i \in hashes : \A j \in hashes : i <= j) - 1)

materialize_runes(lines) ==
    LET runes == [i \in 1..Len(lines) |->
                    [j \in 1..Len(before_hash(lines[i])) |->
                        char_to_rune(before_hash(lines[i])[j])]]
        height == Len(runes)
        width == IF height = 0 THEN 0 ELSE Max({Len(runes[i]) : i \in 1..height})
    IN  Cosmos_new(runes, width, height)

----------------------------------------------------------------------------
(* models.rs: Vessel *)

\* vec![0; 16] in Vessel::new
InitialCells == 16
\* resize_with(self.velocity + 16, || 0) in check_and_expand_data_lattice
GrowthMargin == 16

\* Vessel::new giving velocity 1 to a vessel without a direction
Vessel_new_moving(x, y, starting_rune) ==
    LET dv == CASE starting_rune = "ThrustUp" -> <<"Up", 1>>
                [] starting_rune = "ThrustDown" -> <<"Down", 1>>
                [] starting_rune = "ThrustLeft" -> <<"Left", 1>>
                [] starting_rune = "ThrustRight" -> <<"Right", 1>>
                [] OTHER -> <<"None", 1>>
    IN  [x |-> x, y |-> y, direction |-> dv[1], velocity |-> dv[2],
         data_lattice |-> [i \in 1..InitialCells |-> 0]]

Vessel_new(x, y, starting_rune) ==
    LET dv == CASE starting_rune = "ThrustUp" -> <<"Up", 1>>
                [] starting_rune = "ThrustDown" -> <<"Down", 1>>
                [] starting_rune = "ThrustLeft" -> <<"Left", 1>>
                [] starting_rune = "ThrustRight" -> <<"Right", 1>>
                [] OTHER -> <<"None", 0>>
    IN  [x |-> x, y |-> y, direction |-> dv[1], velocity |-> dv[2],
         data_lattice |-> [i \in 1..InitialCells |-> 0]]

\* a resize that allocates afresh and loses the cells it had
resize_with_fresh(cells, n) == [i \in 1..n |-> 0]

\* Vec::resize_with(n, || 0): truncate to n cells or pad with zeroes up to n
resize_with(cells, n) ==
    [i \in 1..n |-> IF i <= Len(cells) THEN cells[i] ELSE 0]

\* a growth by a fixed block of 16 cells, whatever the index accessed
check_and_expand_fixed_block(v) ==
    IF v.velocity >= Len(v.data_lattice)
    THEN [v EXCEPT !.data_lattice = [i \in 1..(Len(@) + 16) |->
                                        IF i <= Len(@) THEN @[i] ELSE 0]]
    ELSE v

check_and_expand_data_lattice(v) ==
    IF v.velocity >= Len(v.data_lattice)
    THEN [v EXCEPT !.data_lattice = resize_with(@, v.velocity + GrowthMargin)]
    ELSE v

\* current_entropy(&mut self) expands the lattice and returns the cell:
\* current_entropy is the value returned, after_access the vessel it leaves
after_access(v) == check_and_expand_data_lattice(v)

current_entropy(v) == after_access(v).data_lattice[v.velocity + 1]

\* a write to the cell below the one at the velocity
set_entropy_level_below(v, new_entropy_level) ==
    [after_access(v) EXCEPT !.data_lattice[v.velocity] = new_entropy_level]

set_entropy_level(v, new_entropy_level) ==
    [after_access(v) EXCEPT !.data_lattice[v.velocity + 1] = new_entropy_level]

\* stability on a cell that is not 0
is_stable_inverted(v) == current_entropy(v) # 0

is_stable(v) == current_entropy(v) = 0

\* a thrust that gains two of velocity
increase_velocity_twice(v) == [v EXCEPT !.velocity = @ + 2]

increase_velocity(v) == [v EXCEPT !.velocity = @ + 1]

\* velocity -= 1 on a usize: a result of -1 stands for the underflow
decrease_velocity(v) == [v EXCEPT !.velocity = @ - 1]

\* a charge of two
charge_entropy_twice(v) == set_entropy_level(after_access(v), current_entropy(v) + 2)

charge_entropy(v) == set_entropy_level(after_access(v), current_entropy(v) + 1)

\* the decrement without its guard
drain_entropy_unguarded(v) ==
    set_entropy_level(after_access(v), current_entropy(v) - 1)

drain_entropy(v) ==
    IF current_entropy(v) >= 1
    THEN set_entropy_level(after_access(v), current_entropy(v) - 1)
    ELSE after_access(v)

\* a parking that halts the vessel
apply_parking_halt(v) == [v EXCEPT !.velocity = 0]

apply_parking(v) == [v EXCEPT !.velocity = 1]

turn_to(v, new_direction) == [v EXCEPT !.direction = new_direction]

rotate_vessel(v, rotation) == [v EXCEPT !.direction = rotate(@, rotation)]

apply_directional_thrust(v, rune_direction) ==
    IF consistent_with(v.direction, rune_direction)
    THEN increase_velocity(v)
    ELSE IF opposite_to(v.direction, rune_direction)
         THEN decrease_velocity(v)
         ELSE turn_to(v, rune_direction)

\* io::stdin().read_exact(&mut buffer): Ok with a byte, or Err (end of input,
\* read error), written ReadErr
StdinByte == {0, 1, 255}

ReadErr == -1

StdinRead == StdinByte \cup {ReadErr}

\* char::from_u32: the Unicode scalar values
is_scalar(value) ==
    \/ value >= 0 /\ value < 55296
    \/ value >= 57344 /\ value <= 1114111

\* the rune Input with an arm for Err that leaves the cell as it is
input_entropy_keeps_on_err(v, read) ==
    IF read = ReadErr THEN after_access(v)
    ELSE set_entropy_level(v, read)

\* Rune::Input: match io::stdin().read_exact(&mut buffer)
input_entropy(v, read) ==
    IF read = ReadErr THEN set_entropy_level(v, 0)
    ELSE set_entropy_level(v, read)

\* Rune::act_on: the vessel after the rune r acted on v, given the result
\* `read` of the read from stdin that the rune Input makes
act_on(r, v, read) ==
    CASE r = "ThrustUp" -> apply_directional_thrust(v, "Up")
      [] r = "ThrustDown" -> apply_directional_thrust(v, "Down")
      [] r = "ThrustLeft" -> apply_directional_thrust(v, "Left")
      [] r = "ThrustRight" -> apply_directional_thrust(v, "Right")
      [] r = "Parking" -> apply_parking(v)
      [] r = "EntropyIncrease" -> charge_entropy(v)
      [] r = "EntropyDecrease" -> drain_entropy(v)
      [] r = "SteerLeft" ->
            IF ~is_stable(v) THEN rotate_vessel(after_access(v), "Left")
            ELSE after_access(v)
      [] r = "SteerRight" ->
            IF ~is_stable(v) THEN rotate_vessel(after_access(v), "Right")
            ELSE after_access(v)
      [] r = "Input" -> input_entropy(v, read)
      [] r = "Output" -> after_access(v)
      [] OTHER -> v

impact_rune(v, r, read) == act_on(r, v, read)

\* Result<(usize, usize), &str> of get_next_coordinate
Ok(x, y) == [ok |-> TRUE, x |-> x, y |-> y]

Err == [ok |-> FALSE, x |-> 0, y |-> 0]

\* get_next_coordinate with a saturating subtraction in place of the checks
get_next_coordinate_saturating(v) ==
    CASE v.direction = "Up" -> Ok(v.x, IF v.y < 1 THEN 0 ELSE v.y - 1)
      [] v.direction = "Down" -> Ok(v.x, v.y + 1)
      [] v.direction = "Left" -> Ok(IF v.x < 1 THEN 0 ELSE v.x - 1, v.y)
      [] v.direction = "Right" -> Ok(v.x + 1, v.y)
      [] v.direction = "None" -> Err

get_next_coordinate(v) ==
    CASE v.direction = "Up" -> IF v.y < 1 THEN Err ELSE Ok(v.x, v.y - 1)
      [] v.direction = "Down" -> Ok(v.x, v.y + 1)
      [] v.direction = "Left" -> IF v.x < 1 THEN Err ELSE Ok(v.x - 1, v.y)
      [] v.direction = "Right" -> Ok(v.x + 1, v.y)
      [] v.direction = "None" -> Err

\* a move along the row only
move_to_x_only(v, new_x, new_y) == [v EXCEPT !.x = new_x]

move_to(v, new_x, new_y) == [v EXCEPT !.x = new_x, !.y = new_y]

----------------------------------------------------------------------------
(* The programs the runs start from: each a sequence of lines, each line a *)
(* sequence of characters                                                  *)

ThrustChars == {"^", "v", "<", ">"}

Chars == ThrustChars \cup {"P", "+", "-", "[", "]", ",", ".", "D", " ", "#"}

LinesOver(alphabet, n) == UNION {[1..k -> alphabet] : k \in 0..n}

\* every program of one line of at most MaxLineLen characters
OneLinePrograms == {<<l>> : l \in LinesOver(Chars, MaxLineLen)}

\* every program of at most MaxRows lines of at most MaxCols thrust characters
\* (the empty program, empty lines and ragged grids included)
ThrustPrograms ==
    UNION {[1..r -> LinesOver(ThrustChars, MaxCols)] : r \in 0..MaxRows}

Repeat(c, n) == [i \in 1..n |-> c]

ScenarioPrograms == {
    \* a row of thrusts that takes the velocity to 16, then to 17, before the
    \* first access to the data lattice
    <<Repeat(">", InitialCells) \o <<"+", ".">>>>,
    <<Repeat(">", InitialCells + 1) \o <<"+", "]">>>>,
    \* the same row with steers as the first accesses, on a cell that is 0
    <<Repeat(">", InitialCells) \o <<"]", "[">>>>,
    \* cycles that gain 1, or 2, of velocity per turn and access the lattice
    << <<">", ">", "v">>, <<"^", "+", "<">> >>,
    << <<">", ">", ">", "v">>, <<"^", "-", "+", "<">> >>,
    \* a cycle held by steer runes, on a cell read from stdin
    << <<">", ",", "]">>, <<"]", "-", "]">> >>,
    << <<">", "+", "]">>, <<"v", "#", " ">>, <<"[", ".", "[">> >>,
    \* parking after a gain of velocity, on a ragged grid
    << <<">", ">", "v">>, <<>>, <<"^", "<", "P", "D">> >>
}

Programs == OneLinePrograms \cup ThrustPrograms \cup ScenarioPrograms

\* grids of several rows that the vessel can only go down: 'v' and void
ColumnChars == {"v", " "}

ColumnPrograms ==
    UNION {[1..k -> LinesOver(ColumnChars, MaxCols)] : k \in 0..MaxRows}

\* the four thrusts at the corners of a cycle
CycleProgram == << <<">", "v">>, <<"^", "<">> >>

\* a lighter family, for the specifications that cost more for each program
LightPrograms ==
    OneLinePrograms \cup ScenarioPrograms \cup ColumnPrograms
        \cup {CycleProgram}

----------------------------------------------------------------------------
(* main.rs and sail.rs: the run *)

Termination == {"Stopped", "NoSignal", "NoStart"}

NoSignal(x, y) == <<x, y>>

\* the loop condition with >= for >
loop_condition_ge(v) == v.velocity >= 0

\* while vessel.velocity() > 0
loop_condition(v) == v.velocity > 0

Config_new(debug, trace, ignore_void) ==
    [debug |-> debug, trace |-> trace, ignore_void |-> ignore_void]

\* every Config that Config::new can build
Configs == {Config_new(d, t, i) : d \in BOOLEAN, t \in BOOLEAN, i \in BOOLEAN}

\* main: Config::new(cli.debug || cli.trace, cli.trace, cli.ignore_void)
main_config(cli_debug, cli_trace, cli_ignore_void) ==
    Config_new(cli_debug \/ cli_trace, cli_trace, cli_ignore_void)

\* the configuration of a run started without any flag
DefaultConfig == main_config(FALSE, FALSE, FALSE)

\* a formatting of the vessel that reads its cell through current_entropy,
\* which grows the lattice
debug_fmt_through_accessor(v) == after_access(v)

\* {:?} of the vessel (derive(Debug)): the vessel after it was formatted; the
\* formatting takes &Vessel and reads its fields
debug_fmt(v) == v

\* if rune == Rune::Debug && config.debug
emits_debug(cfg, r) == r = "Debug" /\ cfg.debug

\* if config.trace && !(config.ignore_void && rune == Rune::Void)
emits_trace(cfg, r) == cfg.trace /\ ~(cfg.ignore_void /\ r = "Void")

\* the lines that the two println! of an iteration print
diagnostics(cfg, r) ==
    (IF emits_debug(cfg, r) THEN <<"Debug">> ELSE <<>>)
        \o (IF emits_trace(cfg, r) THEN <<"Trace">> ELSE <<>>)

\* the vessel after the two println! of an iteration
after_diagnostics(cfg, v, r) ==
    LET shown == IF emits_debug(cfg, r) THEN debug_fmt(v) ELSE v
    IN  IF emits_trace(cfg, r) THEN debug_fmt(shown) ELSE shown

\* the state of a run of sail at its start
run_at_entry(on, cfg, v) ==
    [on |-> on, config |-> cfg, vessel |-> v, pc |-> "Entry", signal |-> <<>>]

\* main: the cosmos is built from one of the programs, the vessel is created
\* at (0, 0) from the rune at the origin, the configuration is one of
\* `configs`, and sail is about to be called; with `twin_on` a second run
\* starts beside it as a run started without any flag
Start(programs, configs, twin_on) ==
    /\ \E lines \in programs : cosmos = materialize_runes(lines)
    /\ vessel = Vessel_new(0, 0, Cosmos_get(cosmos, 0, 0))
    /\ pc = "Entry"
    /\ signal = <<>>
    /\ rune = "NoRune"
    /\ steps = 0
    /\ reads = 0
    /\ prints = 0
    /\ last_out = -1
    /\ last_read = <<>>
    /\ config \in configs
    /\ diag = <<>>
    /\ twin = run_at_entry(twin_on, DefaultConfig, vessel)

\* a run started without any flag
Init == Start(Programs, {DefaultConfig}, FALSE)

\* the program counter after an iteration that impacted a rune
after_impact(v) ==
    IF v.velocity < 0 THEN "Underflow"
    ELSE IF loop_condition(v) THEN "Running" ELSE "Stopped"

\* the boundary check without its test of y
out_of_cosmos_x_only(c, x, y) == x >= c.width

\* the boundary check with > for >=
out_of_cosmos_gt(c, x, y) == x > c.width \/ y > c.height

\* if x >= width || y >= height
out_of_cosmos(c, x, y) == x >= c.width \/ y >= c.height

\* the candidate coordinate reported as it is, without the clamp
last_signal_raw(c, x, y) == NoSignal(x, y)

\* Termination::NoSignal(x.min(width - 1), y.min(height - 1))
last_signal(c, x, y) == NoSignal(Min(x, c.width - 1), Min(y, c.height - 1))

\* sail as a function: the run after its next step on the cosmos c, which
\* is the entry check with the first test of the loop condition, or one
\* iteration of the loop followed by the test of the loop condition; `read`
\* is the result of the read from stdin, should the iteration impact Input
sail_step(c, run, read) ==
    LET v == run.vessel
        next == get_next_coordinate(v)
        r == Cosmos_get(c, next.x, next.y)
        hit == after_diagnostics(run.config,
                                 impact_rune(move_to(v, next.x, next.y), r, read),
                                 r)
    IN
    CASE run.pc = "Entry" ->
            [run EXCEPT !.pc = IF v.velocity = 0 THEN "NoStart"
                               ELSE IF loop_condition(v) THEN "Running"
                               ELSE "Stopped"]
      [] run.pc = "Running" /\ ~next.ok ->
            [run EXCEPT !.pc = "NoSignal", !.signal = NoSignal(v.x, v.y)]
      [] run.pc = "Running" /\ next.ok /\ out_of_cosmos(c, next.x, next.y) ->
            IF c.width = 0 \/ c.height = 0
            THEN [run EXCEPT !.pc = "Underflow"]
            ELSE [run EXCEPT !.pc = "NoSignal",
                             !.signal = last_signal(c, next.x, next.y)]
      [] run.pc = "Running" /\ next.ok /\ ~out_of_cosmos(c, next.x, next.y) ->
            [run EXCEPT !.vessel = hit, !.pc = after_impact(hit)]
      [] OTHER -> run

\* the second run takes its step together with the first, on the same
\* result of the read from stdin
Lockstep(read) ==
    twin' = IF twin.on THEN sail_step(cosmos, twin, read) ELSE twin

\* sail, up to the first test of the loop condition
EnterSail ==
    /\ pc = "Entry"
    /\ pc' = IF vessel.velocity = 0 THEN "NoStart"
             ELSE IF loop_condition(vessel) THEN "Running" ELSE "Stopped"
    /\ Lockstep(ReadErr)
    /\ UNCHANGED <<cosmos, vessel, signal, rune, steps, reads, prints, last_out,
                   last_read, config, diag>>

\* the bounds of the model on what a rune may do to the vessel: the velocity
\* stays within MaxVel and a cell is not counted up beyond MaxCell (a cell
\* that holds a larger byte read from stdin is counted up freely)
WithinBounds(r, v) ==
    /\ act_on(r, v, 0).velocity <= MaxVel
    /\ r = "EntropyIncrease" => current_entropy(v) # MaxCell

\* the standard streams after the rune r acted on the vessel v, `read` being
\* the result of the read that the rune Input makes
Streams(r, v, read) ==
    /\ reads' = IF r = "Input" THEN Saturate(reads) ELSE reads
    /\ last_read' = IF r = "Input" THEN <<read>> ELSE last_read
    /\ prints' = IF r = "Output" /\ is_scalar(current_entropy(v))
                 THEN Saturate(prints) ELSE prints
    /\ last_out' = IF r = "Output" /\ is_scalar(current_entropy(v))
                   THEN current_entropy(v) ELSE last_out

\* one iteration of the loop of sail whose projection fails
StepNoCoordinate ==
    /\ pc = "Running"
    /\ ~get_next_coordinate(vessel).ok
    /\ pc' = "NoSignal"
    /\ signal' = NoSignal(vessel.x, vessel.y)
    /\ Lockstep(ReadErr)
    /\ UNCHANGED <<cosmos, vessel, rune, steps, reads, prints, last_out,
                   last_read, config, diag>>

\* one iteration whose candidate coordinate is outside the cosmos; width - 1
\* and height - 1 are usize subtractions
StepOutside ==
    LET next == get_next_coordinate(vessel) IN
    /\ pc = "Running"
    /\ next.ok
    /\ out_of_cosmos(cosmos, next.x, next.y)
    /\ IF cosmos.width = 0 \/ cosmos.height = 0
       THEN pc' = "Underflow" /\ signal' = signal
       ELSE pc' = "NoSignal" /\ signal' = last_signal(cosmos, next.x, next.y)
    /\ Lockstep(ReadErr)
    /\ UNCHANGED <<cosmos, vessel, rune, steps, reads, prints, last_out,
                   last_read, config, diag>>

\* one iteration that moves the vessel and impacts the rune it lands on,
\* followed by the test of the loop condition
StepImpact ==
    LET next == get_next_coordinate(vessel)
        r == Cosmos_get(cosmos, next.x, next.y)
        moved == move_to(vessel, next.x, next.y)
    IN
    /\ pc = "Running"
    /\ next.ok
    /\ ~out_of_cosmos(cosmos, next.x, next.y)
    /\ WithinBounds(r, moved)
    /\ \E read \in StdinRead :
          /\ r # "Input" => read = ReadErr
          /\ vessel' = after_diagnostics(config, impact_rune(moved, r, read), r)
          /\ Streams(r, moved, read)
          /\ Lockstep(read)
    /\ diag' = diagnostics(config, r)
    /\ pc' = after_impact(vessel')
    /\ rune' = r
    /\ steps' = Saturate(steps)
    /\ UNCHANGED <<cosmos, signal, config>>

Next == EnterSail \/ StepNoCoordinate \/ StepOutside \/ StepImpact

Spec == Init /\ [][Next]_vars

\* the run as the process executes it: sail runs its loop without a pause,
\* so an iteration that can be taken is taken
InitFair == Start(LightPrograms, {DefaultConfig}, FALSE)

FairSpec == InitFair /\ [][Next]_vars /\ WF_vars(Next)

\* two runs side by side on the same cosmos and the same stdin: one under
\* any configuration, the other started without any flag
InitTwin == Start(LightPrograms, Configs, TRUE)

SpecTwin == InitTwin /\ [][Next]_vars

----------------------------------------------------------------------------
(* The vessel's public API on its own: a vessel created by Vessel::new from *)
(* any rune, then impacted by any runes in any order (impact_rune), without *)
(* a cosmos or a loop around it                                             *)

InitImpact ==
    /\ cosmos = Cosmos_new(<<>>, 0, 0)
    /\ \E r \in Rune : vessel = Vessel_new(0, 0, r)
    /\ pc = "Api"
    /\ signal = <<>>
    /\ rune = "NoRune"
    /\ steps = 0
    /\ reads = 0
    /\ prints = 0
    /\ last_out = -1
    /\ last_read = <<>>
    /\ config = DefaultConfig
    /\ diag = <<>>
    /\ twin = run_at_entry(FALSE, DefaultConfig, Vessel_new(0, 0, "Void"))

Impact ==
    /\ pc = "Api"
    /\ steps < MaxImpacts
    /\ \E r \in Rune, read \in StdinRead :
          /\ r # "Input" => read = ReadErr
          /\ WithinBounds(r, vessel)
          /\ vessel' = impact_rune(vessel, r, read)
          /\ rune' = r
          /\ Streams(r, vessel, read)
    /\ pc' = IF vessel'.velocity < 0 THEN "Underflow" ELSE "Api"
    /\ steps' = steps + 1
    /\ UNCHANGED <<cosmos, signal, config, diag, twin>>

NextImpact == Impact

SpecImpact == InitImpact /\ [][NextImpact]_vars

----------------------------------------------------------------------------
(* Claims about the run (specification Spec) *)

\* the candidate coordinate of the next step, where the projection succeeds
Candidate == get_next_coordinate(vessel)

\* the candidate coordinate overruns the grid
Overrun ==
    /\ Candidate.ok
    /\ Candidate.x >= cosmos.width \/ Candidate.y >= cosmos.height

\* the projection fails: up from row 0, left from column 0, or no direction
ProjectionFails ==
    \/ vessel.direction = "Up" /\ vessel.y = 0
    \/ vessel.direction = "Left" /\ vessel.x = 0
    \/ vessel.direction = "None"

\* nothing of the vessel, the impacted rune, the step count or the streams
\* changes in the step
NoEffect ==
    /\ vessel' = vessel
    /\ rune' = rune
    /\ steps' = steps
    /\ reads' = reads
    /\ prints' = prints
    /\ last_out' = last_out
    /\ last_read' = last_read

\* C1: whenever the loop of sail is about to run an iteration the velocity
\* is at least 1; the velocity is 0 only before the entry check, at NoStart,
\* or at Stopped as the result of the last step (a thrust), and then no
\* further step is taken; velocity -= 1 is never executed at velocity 0.
C1_VelocityPositiveWhileRunning ==
    /\ []( /\ pc = "Running" => vessel.velocity >= 1
           /\ vessel.velocity >= 0
           /\ vessel.velocity = 0 => pc \in {"Entry", "NoStart", "Stopped"}
           /\ pc = "Stopped" => vessel.velocity = 0 /\ rune \in ThrustRunes )
    /\ [][ /\ pc # "Stopped"
           /\ pc' = "Stopped" => pc = "Running" /\ vessel.velocity = 1 ]_vars

C1_Witness ==
    pc = "Stopped" /\ vessel.velocity = 0 /\ steps >= 2

\* C2: once the entry check is passed the vessel is inside the grid:
\* x < width and y < height, ragged grids included.
C2_PositionInsideCosmos ==
    pc \notin {"Entry", "NoStart"} =>
        /\ vessel.x >= 0 /\ vessel.x < cosmos.width
        /\ vessel.y >= 0 /\ vessel.y < cosmos.height

\* the vessel stands, after three steps or more, on a cell of the grid that
\* lies beyond the end of its (shorter) row
C2_Witness ==
    /\ pc = "Running"
    /\ steps >= 3
    /\ vessel.x >= Len(cosmos.runes[vessel.y + 1])
    /\ vessel.x < cosmos.width

\* C3: a step whose candidate coordinate has x >= width or y >= height ends
\* the run with NoSignal and applies nothing: position, direction, velocity
\* and data lattice are as before the step, no rune is read or impacted.
C3_BoundaryCheckBeforeImpact ==
    [][ (pc = "Running" /\ Overrun) => (pc' = "NoSignal" /\ NoEffect) ]_vars

\* the run has ended on an overrun after impacting an Input rune
C3_Witness ==
    /\ pc = "NoSignal"
    /\ Overrun
    /\ rune = "Input"
    /\ vessel.data_lattice[vessel.velocity + 1] = 255

\* C4: when the rune at (0, 0) is no thrust rune (the empty grid included)
\* the vessel is created without direction and with velocity 0, and sail
\* returns NoInitialVelocityOrDirection without a step: no move, no rune
\* impacted, nothing read and nothing printed.
C4_NoStartWithoutStep ==
    /\ []( Cosmos_get(cosmos, 0, 0) \notin ThrustRunes =>
             /\ vessel = [x |-> 0, y |-> 0, direction |-> "None", velocity |-> 0,
                          data_lattice |-> [i \in 1..16 |-> 0]]
             /\ pc \in {"Entry", "NoStart"}
             /\ rune = "NoRune" /\ steps = 0 /\ reads = 0 /\ prints = 0
             /\ signal = <<>> )
    /\ [][ (pc = "Entry" /\ Cosmos_get(cosmos, 0, 0) \notin ThrustRunes)
             => pc' = "NoStart" ]_vars

\* NoStart on the empty grid
C4_Witness ==
    pc = "NoStart" /\ cosmos.height = 0 /\ cosmos.width = 0

\* C5: a step taken heading Up at row 0, Left at column 0 or without a
\* direction ends the run with NoSignal carrying the vessel's own, unchanged
\* coordinates, and applies nothing; the grid of the single rune '^' ends
\* with NoSignal(0, 0) and no step executed.
C5_ProjectionFailure ==
    /\ [][ (pc = "Running" /\ ProjectionFails) =>
             /\ pc' = "NoSignal"
             /\ signal' = <<vessel.x, vessel.y>>
             /\ NoEffect ]_vars
    /\ []( ~get_next_coordinate([vessel EXCEPT !.direction = "None"]).ok )
    /\ []( (cosmos = materialize_runes(<< <<"^">> >>) /\ pc \notin {"Entry", "Running"})
             => (pc = "NoSignal" /\ signal = <<0, 0>> /\ steps = 0
                 /\ rune = "NoRune") )

\* the run has ended heading Left at column 0, away from the origin, after
\* some steps
C5_Witness ==
    /\ pc = "NoSignal"
    /\ vessel.direction = "Left" /\ vessel.x = 0 /\ vessel.y > 0
    /\ signal = <<vessel.x, vessel.y>>
    /\ steps >= 2

\* C6: a step whose candidate overruns the grid ends the run with NoSignal
\* carrying (min(x, width - 1), min(y, height - 1)); width - 1 and
\* height - 1 never underflow (both are >= 1 whenever the loop runs); the
\* coordinate reported is inside the grid and is the vessel's position.
C6_OverrunReportsClampedPosition ==
    /\ [][ (pc = "Running" /\ Overrun) =>
             /\ pc' = "NoSignal"
             /\ signal' = << IF Candidate.x <= cosmos.width - 1
                             THEN Candidate.x ELSE cosmos.width - 1,
                             IF Candidate.y <= cosmos.height - 1
                             THEN Candidate.y ELSE cosmos.height - 1 >>
             /\ signal' = <<vessel.x, vessel.y>>
             /\ signal'[1] < cosmos.width /\ signal'[2] < cosmos.height ]_vars
    /\ []( pc = "Running" => cosmos.width >= 1 /\ cosmos.height >= 1 )
    /\ []( pc # "Underflow" )

\* the run has ended on an overrun of the bottom edge, away from the origin
C6_Witness ==
    /\ pc = "NoSignal"
    /\ Overrun
    /\ vessel.direction = "Down"
    /\ signal = <<vessel.x, cosmos.height - 1>>
    /\ vessel.x > 0 /\ vessel.y > 0

\* the runes whose effect reads or writes the current cell of the lattice
AccessRunes ==
    {"EntropyIncrease", "EntropyDecrease", "SteerLeft", "SteerRight",
     "Input", "Output"}

\* the step is an iteration that impacted a rune (rune' is that rune)
ImpactStep == pc = "Running" /\ pc' \in {"Running", "Stopped"}

\* C9: after an access to the lattice at velocity p its length exceeds p;
\* the length never decreases; a growth keeps every cell it had at its index
\* with its value, and the cells it adds are 0 (but for the cell p, when the
\* rune that caused the growth writes it).
C9_LatticeGrowthPreserves ==
    [][ LET old == vessel.data_lattice
            new == vessel'.data_lattice
            p == vessel.velocity
        IN  /\ Len(new) >= Len(old)
            /\ (ImpactStep /\ rune' \in AccessRunes) => Len(new) > p
            /\ \A i \in 1..Len(old) : (i # p + 1 \/ Len(new) > Len(old)) => new[i] = old[i]
            /\ \A i \in (Len(old) + 1)..Len(new) :
                  (i # p + 1 \/ rune' \notin {"EntropyIncrease", "Input"}) => new[i] = 0
      ]_vars

\* the lattice has grown and holds a cell written before the growth
C9_Witness ==
    /\ Len(vessel.data_lattice) > 16
    /\ \E i \in 1..16 : vessel.data_lattice[i] # 0

\* C10 as stated: the length of the lattice is always a multiple of 16.
C10_LengthMultipleOf16 ==
    Len(vessel.data_lattice) % 16 = 0

\* C10, amended: the lattice starts with 16 cells and its length changes only
\* by an access at a velocity p at or beyond the length, which makes the
\* length exactly p + 16 (a growth of 16 cells or more, not of a fixed 16).
C10_LengthVelocityPlus16 ==
    /\ Len(vessel.data_lattice) = 16
    /\ [][ Len(vessel'.data_lattice) # Len(vessel.data_lattice) =>
             /\ ImpactStep /\ rune' \in AccessRunes
             /\ vessel.velocity >= Len(vessel.data_lattice)
             /\ Len(vessel'.data_lattice) = vessel.velocity + 16
             /\ Len(vessel'.data_lattice) >= Len(vessel.data_lattice) + 16 ]_vars

\* the lattice has grown from 16 to 33 cells by an access at velocity 17
C10_Witness ==
    Len(vessel.data_lattice) = 33 /\ vessel.velocity = 17

----------------------------------------------------------------------------
(* Claims about the effects of the runes (specification SpecImpact) *)

ThrustDirection(r) ==
    CASE r = "ThrustUp" -> "Up"
      [] r = "ThrustDown" -> "Down"
      [] r = "ThrustLeft" -> "Left"
      [] r = "ThrustRight" -> "Right"

Opposites ==
    {<<"Up", "Down">>, <<"Down", "Up">>, <<"Left", "Right">>, <<"Right", "Left">>}

\* C7: a thrust in the vessel's direction adds 1 to the velocity and keeps
\* the direction; a thrust in the opposite direction subtracts 1 (from a
\* velocity of 1 or more; at 0 the subtraction underflows) and keeps the
\* direction; any other thrust, also on a vessel without direction, sets the
\* direction to the thrust's and keeps the velocity. Position and lattice
\* are unchanged in every case.
C7_DirectionalThrust ==
    [][ (pc = "Api" /\ rune' \in ThrustRunes) =>
          LET d == ThrustDirection(rune')
              h == vessel.direction
          IN  /\ vessel'.x = vessel.x /\ vessel'.y = vessel.y
              /\ vessel'.data_lattice = vessel.data_lattice
              /\ h = d =>
                    vessel'.direction = h /\ vessel'.velocity = vessel.velocity + 1
              /\ <<h, d>> \in Opposites =>
                    /\ vessel'.direction = h
                    /\ vessel.velocity >= 1 =>
                          vessel'.velocity = vessel.velocity - 1 /\ pc' = "Api"
                    /\ vessel.velocity = 0 => pc' = "Underflow"
              /\ (h # d /\ <<h, d>> \notin Opposites) =>
                    vessel'.direction = d /\ vessel'.velocity = vessel.velocity
      ]_vars

\* a vessel created without direction has taken the direction of a thrust
C7_Witness ==
    /\ steps = 1
    /\ rune = "ThrustLeft"
    /\ vessel.direction = "Left"
    /\ vessel.velocity = 0

RightOf(h) ==
    CASE h = "Up" -> "Right"
      [] h = "Right" -> "Down"
      [] h = "Down" -> "Left"
      [] h = "Left" -> "Up"

LeftOf(h) ==
    CASE h = "Up" -> "Left"
      [] h = "Left" -> "Down"
      [] h = "Down" -> "Right"
      [] h = "Right" -> "Up"

\* the value of the cell at the vessel's velocity (0 for a cell not yet there)
Cell ==
    IF vessel.velocity < Len(vessel.data_lattice)
    THEN vessel.data_lattice[vessel.velocity + 1]
    ELSE 0

\* C8: SteerLeft and SteerRight change the direction exactly when the cell
\* at the velocity is not 0; then SteerRight takes Up to Right, Right to
\* Down, Down to Left and Left to Up, and SteerLeft takes Up to Left, Left to
\* Down, Down to Right and Right to Up; the velocity is unchanged.
C8_ConditionalSteer ==
    [][ (pc = "Api" /\ rune' \in {"SteerLeft", "SteerRight"}) =>
          /\ vessel'.velocity = vessel.velocity
          /\ (vessel'.direction # vessel.direction) <=> (Cell # 0)
          /\ (Cell # 0 /\ vessel.direction # "None" /\ rune' = "SteerRight") =>
                vessel'.direction = RightOf(vessel.direction)
          /\ (Cell # 0 /\ vessel.direction # "None" /\ rune' = "SteerLeft") =>
                vessel'.direction = LeftOf(vessel.direction)
      ]_vars

\* a SteerLeft on a cell that is not 0 has turned the vessel from Up to Left
C8_Witness ==
    /\ rune = "SteerLeft"
    /\ vessel.direction = "Left"
    /\ vessel.velocity = 1
    /\ vessel.data_lattice[2] # 0

----------------------------------------------------------------------------
(* Further claims about the run (specification Spec) *)

\* C11 as stated: the thrust in the vessel's direction that makes the
\* velocity 16 grows the lattice to 32 cells or more.
C11_ThrustTo16GrowsLattice ==
    [][ (ImpactStep /\ rune' = "ThrustRight" /\ vessel.direction = "Right"
         /\ vessel'.velocity = 16)
          => Len(vessel'.data_lattice) >= 32 ]_vars

\* C11, amended: heading Right, each '>' adds exactly 1 to the velocity,
\* keeps the direction and leaves the lattice as it is, also when the
\* velocity becomes 16; the lattice of 16 cells grows only at the next
\* access to a cell at a velocity p >= 16, to p + 16 >= 32 cells, with the
\* cells 0 to 15 kept.
C11_ThrustAddsOneGrowthAtAccess ==
    /\ [][ (ImpactStep /\ rune' = "ThrustRight" /\ vessel.direction = "Right") =>
             /\ vessel'.velocity = vessel.velocity + 1
             /\ vessel'.direction = "Right"
             /\ vessel'.data_lattice = vessel.data_lattice ]_vars
    /\ [][ (Len(vessel.data_lattice) = 16 /\ Len(vessel'.data_lattice) # 16) =>
             /\ rune' \in AccessRunes
             /\ vessel.velocity >= 16
             /\ Len(vessel'.data_lattice) = vessel.velocity + 16
             /\ Len(vessel'.data_lattice) >= 32
             /\ \A i \in 1..16 : vessel'.data_lattice[i] = vessel.data_lattice[i]
         ]_vars

\* on a grid of one row the velocity is 16 after fifteen '>' and the lattice
\* still has its 16 cells
C11_Witness ==
    /\ cosmos.height = 1
    /\ rune = "ThrustRight"
    /\ vessel.direction = "Right"
    /\ vessel.velocity = 16
    /\ vessel.x = 15
    /\ Len(vessel.data_lattice) = 16

\* the step impacted a steer rune while the cell at the velocity was 0
SteerOnZero ==
    /\ ImpactStep
    /\ rune' \in {"SteerLeft", "SteerRight"}
    /\ Cell = 0

\* C12 as stated: a steer on a cell that is 0 leaves the direction, the
\* velocity and the lattice, its length included, as they were.
C12_SteerOnZeroKeepsLattice ==
    [][ SteerOnZero =>
          /\ vessel'.direction = vessel.direction
          /\ vessel'.velocity = vessel.velocity
          /\ vessel'.data_lattice = vessel.data_lattice ]_vars

\* C12, amended: a steer on a cell that is 0 leaves the direction, the
\* velocity and the value of every cell as they were; when the velocity p is
\* at or beyond the length of the lattice the lattice grows to p + 16 cells,
\* the added cells being 0, and otherwise its length is unchanged.
C12_SteerOnZeroKeepsCells ==
    [][ SteerOnZero =>
          LET old == vessel.data_lattice
              new == vessel'.data_lattice
          IN
          /\ vessel'.direction = vessel.direction
          /\ vessel'.velocity = vessel.velocity
          /\ Len(new) = IF vessel.velocity >= Len(old)
                        THEN vessel.velocity + 16
                        ELSE Len(old)
          /\ \A i \in 1..Len(old) : new[i] = old[i]
          /\ \A i \in (Len(old) + 1)..Len(new) : new[i] = 0 ]_vars

\* a steer was the first access at velocity 16: the heading is kept and the
\* lattice has 32 cells
C12_Witness ==
    /\ rune = "SteerRight"
    /\ vessel.direction = "Right"
    /\ vessel.velocity = 16
    /\ vessel.x = 16
    /\ Len(vessel.data_lattice) = 32
    /\ \A i \in 1..32 : vessel.data_lattice[i] = 0

----------------------------------------------------------------------------
(* Further claims about the effects of the runes (specification SpecImpact) *)

\* the value of the cell at the velocity after the step
CellAfter == vessel'.data_lattice[vessel.velocity + 1]

\* C13: EntropyDecrease takes 1 from the cell at the velocity when its value
\* is 1 or more and leaves it 0 when it is 0, changes no other cell, and
\* keeps the velocity and the direction; through any sequence of effects no
\* cell ever holds a value below 0 (the wrapped value of a u32) or above the
\* largest byte plus the number of effects applied.
C13_DrainNeverUnderflows ==
    /\ [](\A i \in 1..Len(vessel.data_lattice) :
            vessel.data_lattice[i] \in 0..(255 + steps))
    /\ [][ rune' = "EntropyDecrease" =>
             /\ CellAfter = IF Cell >= 1 THEN Cell - 1 ELSE 0
             /\ \A i \in 1..Len(vessel.data_lattice) :
                   i # vessel.velocity + 1 =>
                      vessel'.data_lattice[i] = vessel.data_lattice[i]
             /\ vessel'.velocity = vessel.velocity
             /\ vessel'.direction = vessel.direction ]_vars

\* decreases were applied down to 0 and once more: a cell that was charged
\* is 0 again after more decreases than charges
C13_Witness ==
    /\ pc = "Api"
    /\ rune = "EntropyDecrease"
    /\ steps = 4
    /\ reads = 1
    /\ vessel.velocity = 1
    /\ \A i \in 1..Len(vessel.data_lattice) : vessel.data_lattice[i] = 0

----------------------------------------------------------------------------
(* Further claims about the run (specification Spec), continued *)

\* the grid of the single row >+.
GridThrustChargeOutput == materialize_runes(<< <<">", "+", ".">> >>)

\* the vessel created on the origin of that grid
VesselAtOrigin == Vessel_new(0, 0, "ThrustRight")

\* C14: on the grid >+. the run starts at (0,0) heading Right with velocity
\* 1; step 1 lands on (1,0) and the charge takes cell 1 from 0 to 1; step 2
\* lands on (2,0) and the output emits the character of value 1 and changes
\* nothing else; the third iteration has the candidate (3,0) with
\* 3 >= width = 3 and the run ends NoSignal(2,0) after exactly 2 steps.
C14_RunOfThrustChargeOutput ==
    cosmos = GridThrustChargeOutput =>
      /\ cosmos.width = 3 /\ cosmos.height = 1
      /\ pc \in {"Entry", "Running", "NoSignal"}
      /\ steps <= 2
      /\ steps = 0 =>
            /\ pc \in {"Entry", "Running"}
            /\ vessel = VesselAtOrigin
            /\ vessel.x = 0 /\ vessel.y = 0
            /\ vessel.direction = "Right" /\ vessel.velocity = 1
            /\ \A i \in 1..16 : vessel.data_lattice[i] = 0
            /\ prints = 0 /\ reads = 0
      /\ steps = 1 =>
            /\ pc = "Running"
            /\ rune = "EntropyIncrease"
            /\ vessel = [VesselAtOrigin EXCEPT !.x = 1, !.data_lattice[2] = 1]
            /\ prints = 0 /\ reads = 0
      /\ steps = 2 =>
            /\ pc \in {"Running", "NoSignal"}
            /\ rune = "Output"
            /\ vessel = [VesselAtOrigin EXCEPT !.x = 2, !.data_lattice[2] = 1]
            /\ prints = 1 /\ last_out = 1 /\ reads = 0
            /\ Candidate = Ok(3, 0)
            /\ Overrun
      /\ pc = "NoSignal" => steps = 2 /\ signal = NoSignal(2, 0)

\* the run on >+. has ended
C14_Witness ==
    /\ cosmos = GridThrustChargeOutput
    /\ pc = "NoSignal"
    /\ signal = NoSignal(2, 0)
    /\ steps = 2
    /\ last_out = 1

\* C15: an Input whose read fails (end of stream or error) sets the cell at
\* the velocity to 0, and one whose read succeeds sets it to the byte read
\* (0..255); it changes no other cell, keeps the velocity and the direction,
\* and the loop goes on to its next iteration.
C15_InputAtEndOfStream ==
    [][ (ImpactStep /\ rune' = "Input") =>
          /\ Len(last_read') = 1
          /\ last_read'[1] \in {ReadErr} \cup 0..255
          /\ CellAfter = IF last_read'[1] = ReadErr THEN 0 ELSE last_read'[1]
          /\ \A i \in 1..Len(vessel.data_lattice) :
                i # vessel.velocity + 1 =>
                   vessel'.data_lattice[i] = vessel.data_lattice[i]
          /\ vessel'.velocity = vessel.velocity
          /\ vessel'.direction = vessel.direction
          /\ pc' = "Running" ]_vars

\* on >+, the read failed on a cell that held 1: the cell is 0 and the loop
\* is running
C15_Witness ==
    /\ cosmos = materialize_runes(<< <<">", "+", ",">> >>)
    /\ rune = "Input"
    /\ last_read = <<ReadErr>>
    /\ Cell = 0
    /\ pc = "Running"

\* the step impacted a thrust rune opposite to the vessel's direction
OppositeThrust ==
    /\ ImpactStep
    /\ rune' \in ThrustRunes
    /\ <<vessel.direction, ThrustDirection(rune')>> \in Opposites

\* C17: the run becomes Stopped only by an iteration that impacted a thrust
\* opposite to the vessel's direction while the velocity was 1; an opposite
\* thrust at a higher velocity, every other thrust and every rune that is
\* not a thrust leave the velocity at 1 or more and the loop running; after
\* Parking the velocity is exactly 1.
C17_StoppedOnlyByOppositeThrust ==
    /\ [][ (pc' = "Stopped" /\ pc # "Stopped") =>
             /\ OppositeThrust
             /\ vessel.velocity = 1
             /\ vessel'.velocity = 0 ]_vars
    /\ [][ (OppositeThrust /\ vessel.velocity > 1) =>
             vessel'.velocity = vessel.velocity - 1 /\ pc' = "Running" ]_vars
    /\ [][ (ImpactStep /\ rune' \in ThrustRunes /\ ~OppositeThrust) =>
             vessel'.velocity >= vessel.velocity /\ pc' = "Running" ]_vars
    /\ [][ (ImpactStep /\ rune' = "Parking") =>
             vessel'.velocity = 1 /\ pc' = "Running" ]_vars
    /\ [][ (ImpactStep /\ rune' \notin ThrustRunes \cup {"Parking"}) =>
             vessel'.velocity = vessel.velocity /\ pc' = "Running" ]_vars

\* the vessel heading Right at velocity 1 was stopped by a '<'
C17_Witness ==
    /\ pc = "Stopped"
    /\ rune = "ThrustLeft"
    /\ vessel.direction = "Right"
    /\ vessel.velocity = 0
    /\ steps >= 1

\* the four directions of the compass
Compass == Direction \ {"None"}

\* C18: a vessel without direction has velocity 0 and is turned away by the
\* entry check; once the run is past it the direction is one of the compass
\* in every state, no rotation of a compass direction gives None, and so the
\* projection inside the loop fails only upwards from row 0 or leftwards
\* from column 0.
C18_DirectionNeverNoneInLoop ==
    /\ (pc = "Entry" /\ vessel.direction = "None") => vessel.velocity = 0
    /\ pc = "NoStart" => vessel.direction = "None"
    /\ pc \notin {"Entry", "NoStart"} => vessel.direction \in Compass
    /\ \A d \in Compass : \A r \in Rotation : rotate(d, r) \in Compass
    /\ (pc = "Running" /\ ProjectionFails) =>
          \/ vessel.direction = "Up" /\ vessel.y = 0
          \/ vessel.direction = "Left" /\ vessel.x = 0

\* a second right steer turned the vessel from Down to Left, the direction
\* numbered 3
C18_Witness ==
    /\ pc = "Running"
    /\ rune = "SteerRight"
    /\ vessel.direction = "Left"
    /\ vessel.y = 1
    /\ steps >= 3

\* the runes that write a cell
WritingRunes == {"EntropyIncrease", "EntropyDecrease", "Input"}

\* the value of cell i - 1 of a lattice, 0 for a cell not yet there
ValueAt(cells, i) == IF i <= Len(cells) THEN cells[i] ELSE 0

\* C19: an iteration changes the value of at most one cell, the one at the
\* velocity the vessel has when the rune is applied, and only when the rune
\* is EntropyIncrease, EntropyDecrease or Input; a step that impacts no rune
\* leaves the lattice as it is; the velocity is 1 or more whenever a rune is
\* applied, and cell 0 holds 0 in every state.
C19_OneCellWrittenNeverCellZero ==
    /\ [](vessel.data_lattice[1] = 0)
    /\ [][ ImpactStep =>
             /\ vessel.velocity >= 1
             /\ \A i \in 1..Len(vessel'.data_lattice) :
                   (i # vessel.velocity + 1 \/ rune' \notin WritingRunes) =>
                      vessel'.data_lattice[i] = ValueAt(vessel.data_lattice, i)
         ]_vars
    /\ [][ ~ImpactStep => vessel'.data_lattice = vessel.data_lattice ]_vars

\* a cell other than cell 1 was written while cell 0 and cell 1 hold 0
C19_Witness ==
    /\ pc = "Running"
    /\ rune = "EntropyIncrease"
    /\ vessel.velocity = 2
    /\ vessel.data_lattice[3] = 1
    /\ vessel.data_lattice[2] = 0
    /\ vessel.data_lattice[1] = 0

----------------------------------------------------------------------------
(* Termination of the run (specification FairSpec) *)

\* the origin holds a thrust and no other cell holds a thrust or a steer
SimpleGrid ==
    /\ Cosmos_get(cosmos, 0, 0) \in ThrustRunes
    /\ \A y \in 0..(cosmos.height - 1) : \A x \in 0..(cosmos.width - 1) :
          <<x, y>> # <<0, 0>> =>
             Cosmos_get(cosmos, x, y) \notin
                ThrustRunes \cup {"SteerLeft", "SteerRight"}

\* the grid of the rows >v and ^<
CycleGrid == materialize_runes(CycleProgram)

\* C20: on a grid whose only thrust is at the origin and which has no steer
\* the direction is always the one of that thrust, at most
\* max(width, height) - 1 runes are impacted, and the run ends, with
\* NoSignal; on the grid of the rows >v and ^< the run never ends: the loop
\* is running with velocity 1 in every state after the entry, every
\* iteration lands on a thrust inside the grid, and the vessel comes back to
\* the origin again and again.
C20_SimpleGridEndsCycleDoesNot ==
    /\ [](SimpleGrid =>
            /\ vessel.direction = ThrustDirection(Cosmos_get(cosmos, 0, 0))
            /\ steps <= Max({cosmos.width, cosmos.height}) - 1
            /\ pc \in {"Entry", "Running", "NoSignal"})
    /\ (SimpleGrid ~> pc = "NoSignal")
    /\ [](cosmos = CycleGrid =>
            /\ pc \in {"Entry", "Running"}
            /\ vessel.velocity = 1
            /\ Candidate.ok
            /\ ~out_of_cosmos(cosmos, Candidate.x, Candidate.y)
            /\ Cosmos_get(cosmos, Candidate.x, Candidate.y) \in ThrustRunes)
    /\ [](cosmos = CycleGrid =>
            <>(pc = "Running" /\ vessel.x = 0 /\ vessel.y = 0 /\ steps >= 4))

\* the vessel is back at the origin of the cycle after a full turn, running
C20_Witness ==
    /\ cosmos = CycleGrid
    /\ pc = "Running"
    /\ vessel.x = 0 /\ vessel.y = 0
    /\ vessel.direction = "Right"
    /\ vessel.velocity = 1
    /\ steps >= 4

----------------------------------------------------------------------------
(* Two runs side by side (specification SpecTwin) *)

\* C16: a run under any configuration of debug, trace and ignore_void and
\* the run without flags on the same cosmos and the same stdin have, step
\* after step, the same vessel (position, direction, velocity, lattice), and
\* they end together with the same Termination and the same coordinates; any
\* two configurations therefore give the same run, each being equal to the
\* run without flags.
C16_DiagnosticsHaveNoFeedback ==
    twin.on =>
      /\ twin.vessel = vessel
      /\ twin.pc = pc
      /\ twin.signal = signal

\* the run that traces has printed a line after a thrust took the velocity
\* to 16, where no access has grown the lattice yet, and the run without
\* flags has printed none
C16_Witness ==
    /\ twin.on
    /\ config.trace
    /\ ~twin.config.trace
    /\ diag = <<"Trace">>
    /\ rune = "ThrustRight"
    /\ vessel.velocity = 16
    /\ Len(vessel.data_lattice) = 16
    /\ twin.vessel = vessel

====
